---- MODULE Spec2Model ----
(***************************************************************************)
(* Model of localdb.js: the localStorage-backed store of the lost-and-found *)
(* tracker (items, found_reports, claims and the two sequence counters).    *)
(*                                                                         *)
(* The persisted blob localStorage[DB_KEY] is the only durable state.       *)
(* Every public operation of window.ifoundDB is one action: it loads the    *)
(* blob, mutates the parsed copy and saves it back.  Timestamps are the     *)
(* integers 0..MaxTime: nowIso() yields ISO-8601 UTC strings, whose         *)
(* lexicographic order (the order `<` of the sort comparators) is the       *)
(* chronological order.  A JavaScript object is a record; a key an object   *)
(* does not have (foundPhotoPath, lastClaimedAt before their transition)    *)
(* is a field outside the record's DOMAIN.                                  *)
(*                                                                         *)
(* Specifications: Spec (every store operation, imports included),         *)
(* SpecImport (the same, with malformed snapshots among the imports),      *)
(* SpecLocal (the store one browser builds without imports), SpecTabs      *)
(* (addFoundReport of two tabs, interleaved between load and save),        *)
(* SpecPage (the async submit handlers and scan results of one page,       *)
(* interleaved at the awaits), SpecLists (the list queries on stores with  *)
(* empty item names and equal timestamps), SpecCamera (the router, the     *)
(* camera start handlers and the stop buttons of one page) and SpecRate    *)
(* (the recovery rate as a function of the counts).                        *)
(***************************************************************************)
EXTENDS Integers, Sequences, FiniteSets, TLC

\* ------------------------------------------------------------------ bounds
MaxRecords == 2      \* records (items + found_reports + claims) in the store
MaxLocalRecords == 3 \* the same, in the runs without imports
MaxListRecords == 2  \* the same, in the runs of the list queries
MaxStreams == 2      \* camera streams getUserMedia grants in a run
MaxTime == 1         \* the clock runs over 0..MaxTime
MaxTotal == 40       \* items counted by analytics(), where only the counts matter

\* the significand of a double-precision Number, in bits
Mantissa == 53

\* ------------------------------------------------------- JavaScript values
NULL == "null"
UNDEFINED == "undefined"
Falsy == {NULL, UNDEFINED, ""}

\* a || d on string-valued operands
OrDefault(a, d) == IF a \in Falsy THEN d ELSE a

\* n || 0 on a numeric operand
OrZero(n) == IF n = 0 THEN 0 ELSE n

SetMax(S) == CHOOSE m \in S : \A n \in S : n <= m

\* Math.max(a, ...ids.concat(0))
MathMax(a, ids) == SetMax({a, 0} \cup ids)

\* Array.prototype.find: the first element passing Test, as an index (0: none)
FindIndex(s, Test(_)) ==
  IF \E i \in DOMAIN s : Test(s[i])
  THEN CHOOSE i \in DOMAIN s : Test(s[i]) /\ \A j \in 1..(i - 1) : ~Test(s[j])
  ELSE 0

\* obj.key = v (creates the key when the object does not have it)
SetField(obj, key, v) ==
  [f \in DOMAIN obj \cup {key} |-> IF f = key THEN v ELSE obj[f]]

Has(obj, key) == key \in DOMAIN obj

\* ---------------------------------------------------------- input domains
UUIDs == {"u1", "u2"}
Times == 0..MaxTime

ItemFields ==
  [itemName : {"Blue Wallet"}, studentId : {"S1"}, ownerName : {"Ana"},
   strand : {UNDEFINED}, email : {UNDEFINED}, contact : {UNDEFINED},
   photoDataUrl : {"x"}, category : {"wallets"}]

ReportFields ==
  [itemId : UUIDs, finderName : {"Ben"}, location : {"Library"},
   photoDataUrl : {UNDEFINED, "photo"}]

ClaimFields == [itemId : UUIDs, claimantName : {"Ana"}]

\* sequence ids carried by imported snapshots: one the store issues first,
\* one ahead of the counter of a small store
SnapIds == {1, 3}

\* -------------------------------------------------------------- the store
EmptyDb ==
  [items |-> <<>>, found_reports |-> <<>>, claims |-> <<>>,
   seq |-> [found_reports |-> 0, claims |-> 0]]

Absent == [kind |-> "absent"]
Garbage == [kind |-> "garbage"]

\* the fields the operations copy from their caller without a default
PassedKeys ==
  {"itemName", "studentId", "ownerName", "itemId", "finderName", "location",
   "claimantName"}

\* JSON.stringify leaves out the keys whose value is undefined
Undefined(obj) == {f \in DOMAIN obj \cap PassedKeys : obj[f] = UNDEFINED}
JSONobject(obj) ==
  IF Undefined(obj) = {} THEN obj
  ELSE [k \in DOMAIN obj \ Undefined(obj) |-> obj[k]]
JSONarray(s) ==
  IF \A i \in DOMAIN s : Undefined(s[i]) = {} THEN s
  ELSE [i \in DOMAIN s |-> JSONobject(s[i])]

\* JSON.stringify(db) / JSON.parse(txt): the blob is a tagged text; a text
\* that is not JSON has no parse
JSONstringify(db) ==
  [kind |-> "json",
   text |-> [db EXCEPT !.items = JSONarray(@),
                       !.found_reports = JSONarray(@),
                       !.claims = JSONarray(@)]]
JSONparses(txt) == txt.kind = "json"
JSONparse(txt) == txt.text

\* save(db): localStorage.setItem(DB_KEY, JSON.stringify(db))
save(db) == JSONstringify(db)

\* load(): the store the operation works on
load(b) ==
  IF b = Absent \/ ~JSONparses(b)
  THEN EmptyDb
  ELSE LET db == JSONparse(b) IN
       IF Has(db, "seq") THEN db
       ELSE SetField(db, "seq", [found_reports |-> 0, claims |-> 0])

\* variant: init() returns the empty store without saving it
loaded_withoutSave(b) == b

\* the blob load() leaves behind: init() saves the empty store
loaded(b) == IF b = Absent \/ ~JSONparses(b) THEN save(EmptyDb) ELSE b

ItemIdsOf(db) == {db.items[i].id : i \in DOMAIN db.items}
ReportIdsOf(db) == {db.found_reports[i].id : i \in DOMAIN db.found_reports}
Size(db) == Len(db.items) + Len(db.found_reports) + Len(db.claims)

\* every item id the store has seen, as an id or as a reference
KnownIds(db) ==
  ItemIdsOf(db) \cup {db.found_reports[i].itemId : i \in DOMAIN db.found_reports}
                \cup {db.claims[i].itemId : i \in DOMAIN db.claims}

\* blob is localStorage[DB_KEY]; op, arg and ret are the last operation, its
\* argument and its result, and saves the number of save(db) calls it made
\* after its load(); scannedItemId is the page's variable of that name;
\* cameras is the page's panel and camera state (hash, mediaStream, scanning,
\* regMediaStream, the streams whose tracks run, the start handlers)
VARIABLES blob, clock, op, arg, ret, saves, room, tabs, page, scannedItemId,
          cameras
vars == <<blob, clock, op, arg, ret, saves, room, tabs, page, scannedItemId,
          cameras>>

\* the store as the next operation will see it
Db == load(blob)

\* nowIso(): the wall clock does not run backwards
Now(t) == t \in Times /\ t >= clock /\ t <= clock + 1

Val(kind, v) == [kind |-> kind, val |-> v]
RetTrue == [kind |-> "true"]
RetFalse == [kind |-> "false"]
RetNull == [kind |-> "null"]
\* the call ends with a TypeError thrown to its caller
Raised == [kind |-> "TypeError"]

\* the browser tabs that write the store at the same time, and the handlers
\* of one page that may be suspended at an await
Tabs == {"A", "B"}
Handlers == {"found1", "found2", "register1", "register2"}
Idle == [pc |-> "idle"]

\* the panels of the page the router shows (setActivePanel), and the two
\* panels that have a camera
Panels == {"#home", "#scan", "#register"}
CameraPanels == {"#scan", "#register"}

\* the clicks on a start button: each runs startCameraScan or startRegCamera
Starters == {"scan1", "scan2", "reg1", "reg2"}
PanelOf(h) == IF h \in {"scan1", "scan2"} THEN "#scan" ELSE "#register"

\* streams are numbered from 1 as getUserMedia grants them; a variable that
\* tracks no stream (null) holds NoStream
NoStream == 0

\* the page as loaded: panel #home, no stream, no scan loop, no click yet;
\* live[p] holds the streams granted for panel p whose tracks nobody stopped
NoCameras ==
  [hash |-> "#home", mediaStream |-> NoStream, regMediaStream |-> NoStream,
   scanning |-> FALSE, live |-> [p \in CameraPanels |-> {}], granted |-> 0,
   starts |-> [h \in Starters |-> "idle"]]

\* before the first operation: nothing usable under DB_KEY; `room` is the
\* number of records the store may grow to in the run
Start(n) ==
  /\ blob \in {Absent, Garbage}
  /\ clock = 0
  /\ op = "none"
  /\ arg = [kind |-> "none"]
  /\ ret = [kind |-> "none"]
  /\ saves = 0
  /\ room = n
  /\ tabs = [w \in Tabs |-> Idle]
  /\ page = [h \in Handlers |-> Idle]
  /\ scannedItemId = NULL
  /\ cameras = NoCameras

Init == Start(MaxRecords)

\* ----------------------------------------------------------------- addItem
NewItem(id, f, t) ==
  [id |-> id, itemName |-> f.itemName, studentId |-> f.studentId,
   ownerName |-> f.ownerName, category |-> OrDefault(f.category, "other"),
   strand |-> OrDefault(f.strand, NULL), email |-> OrDefault(f.email, NULL),
   contact |-> OrDefault(f.contact, NULL),
   photoPath |-> OrDefault(f.photoDataUrl, NULL),
   status |-> "registered", createdAt |-> t]

\* uuidv4(): a 128-bit random identifier, which no id seen so far equals
uuidv4(db) == UUIDs \ KnownIds(db)

addItem(f) ==
  \E t \in Times, id \in uuidv4(Db) :
    LET db == Db
        item == NewItem(id, f, t)
    IN /\ Now(t)
       /\ Size(db) < room
       /\ blob' = save([db EXCEPT !.items = Append(@, item)])
       /\ clock' = t
       /\ op' = "addItem"
       /\ saves' = 1
       /\ arg' = Val("fields", f)
       /\ ret' = Val("item", item)

\* ---------------------------------------------------------- addFoundReport
NewReport(id, f, t) ==
  [id |-> id, itemId |-> f.itemId, finderName |-> f.finderName,
   location |-> f.location, photoPath |-> OrDefault(f.photoDataUrl, NULL),
   status |-> "pending", createdAt |-> t]

\* variant: the report takes the sequence value of before the increment
addFoundReport_idBeforeIncrement(f) ==
  \E t \in Times :
    LET db == Db
        n == OrZero(db.seq.found_reports) + 1
        report == NewReport(n - 1, f, t)
    IN /\ Now(t)
       /\ Size(db) < room
       /\ blob' = save([db EXCEPT !.seq.found_reports = n,
                                  !.found_reports = Append(@, report)])
       /\ clock' = t
       /\ op' = "addFoundReport"
       /\ saves' = 1
       /\ arg' = Val("fields", f)
       /\ ret' = Val("report", report)

addFoundReport(f) ==
  \E t \in Times :
    LET db == Db
        n == OrZero(db.seq.found_reports) + 1
        report == NewReport(n, f, t)
    IN /\ Now(t)
       /\ Size(db) < room
       /\ blob' = save([db EXCEPT !.seq.found_reports = n,
                                  !.found_reports = Append(@, report)])
       /\ clock' = t
       /\ op' = "addFoundReport"
       /\ saves' = 1
       /\ arg' = Val("fields", f)
       /\ ret' = Val("report", report)

\* -------------------------------------------------- verifyReportMoveToLost
\* variant: the report's photoPath is copied even when it is null
Verified_photoAlwaysCopied(db, r, i) ==
  LET report == db.found_reports[r]
      item1 == [db.items[i] EXCEPT !.status = "lost"]
  IN [db EXCEPT !.found_reports[r].status = "verified",
                !.items[i] = SetField(item1, "foundPhotoPath", report.photoPath)]

\* variant: verifying a verified report makes it pending again
Verified_toggles(db, r, i) ==
  LET report == db.found_reports[r]
      item1 == [db.items[i] EXCEPT !.status = "lost"]
      item2 == IF report.photoPath \notin Falsy
               THEN SetField(item1, "foundPhotoPath", report.photoPath)
               ELSE item1
  IN [db EXCEPT !.found_reports[r].status =
                   IF @ = "pending" THEN "verified" ELSE "pending",
                !.items[i] = item2]

\* variant: the verified item is marked claimed
Verified_marksClaimed(db, r, i) ==
  LET report == db.found_reports[r]
      item1 == [db.items[i] EXCEPT !.status = "claimed"]
      item2 == IF report.photoPath \notin Falsy
               THEN SetField(item1, "foundPhotoPath", report.photoPath)
               ELSE item1
  IN [db EXCEPT !.found_reports[r].status = "verified", !.items[i] = item2]

\* the store after a successful verification of report r for item i
Verified(db, r, i) ==
  LET report == db.found_reports[r]
      item1 == [db.items[i] EXCEPT !.status = "lost"]
      item2 == IF report.photoPath \notin Falsy
               THEN SetField(item1, "foundPhotoPath", report.photoPath)
               ELSE item1
  IN [db EXCEPT !.found_reports[r].status = "verified", !.items[i] = item2]

\* variant: the report is marked and saved before its item is looked up
verifyReportMoveToLost_marksFirst(reportId) ==
  LET db == Db
      r == FindIndex(db.found_reports, LAMBDA x : x.id = reportId)
      i == IF r = 0 THEN 0
           ELSE FindIndex(db.items, LAMBDA x : x.id = db.found_reports[r].itemId)
      marked == IF r = 0 THEN db
                ELSE [db EXCEPT !.found_reports[r].status = "verified"]
  IN /\ op' = "verifyReportMoveToLost"
     /\ arg' = Val("reportId", reportId)
     /\ clock' = clock
     /\ IF r = 0 THEN blob' = loaded(blob) /\ ret' = RetFalse /\ saves' = 0
        ELSE IF i = 0 THEN blob' = save(marked) /\ ret' = RetFalse /\ saves' = 1
        ELSE blob' = save(Verified(db, r, i)) /\ ret' = RetTrue /\ saves' = 2

verifyReportMoveToLost(reportId) ==
  LET db == Db
      r == FindIndex(db.found_reports, LAMBDA x : x.id = reportId)
      i == IF r = 0 THEN 0
           ELSE FindIndex(db.items, LAMBDA x : x.id = db.found_reports[r].itemId)
  IN /\ op' = "verifyReportMoveToLost"
     /\ arg' = Val("reportId", reportId)
     /\ clock' = clock
     /\ IF r = 0 \/ i = 0
        THEN blob' = loaded(blob) /\ ret' = RetFalse /\ saves' = 0
        ELSE blob' = save(Verified(db, r, i)) /\ ret' = RetTrue /\ saves' = 1

\* ---------------------------------------------------------------- addClaim
NewClaim(id, f, t) ==
  [id |-> id, itemId |-> f.itemId, claimantName |-> f.claimantName,
   createdAt |-> t]

\* variant: lastClaimedAt is written only the first time
Claimed_keepsFirstClaimTime(db, i, c) ==
  [db EXCEPT !.seq.claims = c.id,
             !.claims = Append(@, c),
             !.items[i] = IF Has(@, "lastClaimedAt")
                          THEN [@ EXCEPT !.status = "claimed"]
                          ELSE SetField([@ EXCEPT !.status = "claimed"],
                                        "lastClaimedAt", c.createdAt)]

\* the store after claim c has been recorded for item i
Claimed(db, i, c) ==
  [db EXCEPT !.seq.claims = c.id,
             !.claims = Append(@, c),
             !.items[i] = SetField([@ EXCEPT !.status = "claimed"],
                                   "lastClaimedAt", c.createdAt)]

\* variant: the sequence number is taken and saved before the item lookup
addClaim_countsFirst(f) ==
  \E t \in Times :
    LET db == Db
        i == FindIndex(db.items, LAMBDA x : x.id = f.itemId)
        claim == NewClaim(OrZero(db.seq.claims) + 1, f, t)
    IN /\ Now(t)
       /\ op' = "addClaim"
       /\ arg' = Val("fields", f)
       /\ IF i = 0
          THEN /\ blob' = save([db EXCEPT !.seq.claims = claim.id])
               /\ ret' = RetNull
               /\ clock' = clock
               /\ saves' = 1
          ELSE /\ Size(db) < room
               /\ blob' = save(Claimed(db, i, claim))
               /\ ret' = Val("claim", claim)
               /\ clock' = t
               /\ saves' = 1

addClaim(f) ==
  \E t \in Times :
    LET db == Db
        i == FindIndex(db.items, LAMBDA x : x.id = f.itemId)
        claim == NewClaim(OrZero(db.seq.claims) + 1, f, t)
    IN /\ Now(t)
       /\ op' = "addClaim"
       /\ arg' = Val("fields", f)
       /\ IF i = 0
          THEN blob' = loaded(blob) /\ ret' = RetNull /\ clock' = clock /\ saves' = 0
          ELSE /\ Size(db) < room
               /\ blob' = save(Claimed(db, i, claim))
               /\ ret' = Val("claim", claim)
               /\ clock' = t
               /\ saves' = 1

\* ------------------------------------------------------------- importMerge
\* records of imported snapshots: an item already claimed elsewhere, a report
\* still pending there, a claim; their ids may or may not be in the store
SnapItems ==
  {[id |-> id, itemName |-> "Red Phone", studentId |-> "S2", ownerName |-> "Cy",
    category |-> "phones", strand |-> NULL, email |-> NULL, contact |-> NULL,
    photoPath |-> NULL, status |-> "claimed", createdAt |-> 0,
    lastClaimedAt |-> 0] : id \in UUIDs}

SnapReports ==
  {[id |-> n, itemId |-> "u1", finderName |-> "Dee", location |-> "Gym",
    photoPath |-> NULL, status |-> "pending", createdAt |-> 0] :
     n \in SnapIds}

SnapClaims ==
  {[id |-> n, itemId |-> "u1", claimantName |-> "Cy", createdAt |-> 0] :
     n \in SnapIds}

SeqsUpTo(S, n) == UNION {[1..k -> S] : k \in 0..n}

\* objects in which the collection `bad` is a number instead of an array,
\* after a collection that is well-formed: `for (const item of 5)` throws
Malformed ==
  {[kind |-> "object", val |-> <<>>, bad |-> "items"]}
  \cup
  {[kind |-> "object", val |-> [items |-> <<i>>], bad |-> k] :
     i \in {x \in SnapItems : x.id = "u2"}, k \in {"found_reports", "claims"}}

\* the values JSON.parse hands to importMerge: null, a non-object, the object
\* {} and objects holding the three collections, two records at most
Snapshots ==
  {[kind |-> "null"], [kind |-> "number"], [kind |-> "object", val |-> <<>>]}
  \cup
  {[kind |-> "object", val |-> o] :
     o \in {x \in [items : SeqsUpTo(SnapItems, 2),
                   found_reports : SeqsUpTo(SnapReports, 2),
                   claims : SeqsUpTo(SnapClaims, 2)] :
              Len(x.items) + Len(x.found_reports) + Len(x.claims) <= 2}}

\* data[key] || []
Incoming(obj, key) == IF Has(obj, key) THEN obj[key] ELSE <<>>

\* variant: every incoming record is pushed
mergeArray_appendsAll(old, incoming) == old \o incoming

\* variant: an incoming record replaces the existing record of the same id
mergeArray_incomingWins(old, incoming) ==
  LET existing == {old[i].id : i \in DOMAIN old}
      Same(x) == {j \in DOMAIN incoming : incoming[j].id = x.id}
  IN [i \in DOMAIN old |->
        IF Same(old[i]) = {} THEN old[i]
        ELSE incoming[CHOOSE j \in Same(old[i]) : TRUE]]
     \o SelectSeq(incoming, LAMBDA x : x.id \notin existing)

\* mergeArray(key, x => x.id): `existing` is built once, before the loop
mergeArray(old, incoming) ==
  LET existing == {old[i].id : i \in DOMAIN old}
  IN old \o SelectSeq(incoming, LAMBDA x : x.id \notin existing)

\* variant: the sequences are not fixed after the merge
Merged_keepsCounters(db, obj) ==
  [db EXCEPT
     !.items = mergeArray(db.items, Incoming(obj, "items")),
     !.found_reports = mergeArray(db.found_reports, Incoming(obj, "found_reports")),
     !.claims = mergeArray(db.claims, Incoming(obj, "claims"))]

\* variant: the sequences are fixed from the snapshot's ids alone
Merged_countersFromSnapshot(db, obj) ==
  LET reports == Incoming(obj, "found_reports")
      claims == Incoming(obj, "claims")
  IN [db EXCEPT
        !.items = mergeArray(db.items, Incoming(obj, "items")),
        !.found_reports = mergeArray(db.found_reports, reports),
        !.claims = mergeArray(db.claims, claims),
        !.seq.found_reports = MathMax(0, {reports[i].id : i \in DOMAIN reports}),
        !.seq.claims = MathMax(0, {claims[i].id : i \in DOMAIN claims})]

\* the store importMerge saves for the object obj
Merged(db, obj) ==
  LET items == mergeArray(db.items, Incoming(obj, "items"))
      reports == mergeArray(db.found_reports, Incoming(obj, "found_reports"))
      claims == mergeArray(db.claims, Incoming(obj, "claims"))
  IN [db EXCEPT
        !.items = items,
        !.found_reports = reports,
        !.claims = claims,
        !.seq.found_reports =
           MathMax(OrZero(db.seq.found_reports), {reports[i].id : i \in DOMAIN reports}),
        !.seq.claims =
           MathMax(OrZero(db.seq.claims), {claims[i].id : i \in DOMAIN claims})]

\* importMerge(data) on the blob b: the blob it leaves and what it returns
\* variant: what was merged before the throw is saved
ImportMerge_savesBeforeThrow(b, data) ==
  IF data.kind # "object"
  THEN [blob |-> b, ret |-> RetFalse, saves |-> 0]
  ELSE IF Has(data, "bad")
  THEN [blob |-> save(Merged(load(b), data.val)), ret |-> Raised, saves |-> 1]
  ELSE [blob |-> save(Merged(load(b), data.val)), ret |-> RetTrue, saves |-> 1]

\* a mergeArray that throws leaves importMerge before its save(db); load()
\* has run by then
ImportMerge(b, data) ==
  IF data.kind # "object"
  THEN [blob |-> b, ret |-> RetFalse, saves |-> 0]
  ELSE IF Has(data, "bad")
  THEN [blob |-> loaded(b), ret |-> Raised, saves |-> 0]
  ELSE [blob |-> save(Merged(load(b), data.val)), ret |-> RetTrue, saves |-> 1]

\* what the trace keeps of a snapshot: its kind and the ids it holds
IdsOf(s) == {s[i].id : i \in DOMAIN s}

Summary(data) ==
  IF data.kind # "object" THEN [kind |-> data.kind]
  ELSE LET ids == [items |-> IdsOf(Incoming(data.val, "items")),
                   found_reports |-> IdsOf(Incoming(data.val, "found_reports")),
                   claims |-> IdsOf(Incoming(data.val, "claims"))]
       IN IF Has(data, "bad")
          THEN [kind |-> "object", ids |-> ids, bad |-> data.bad]
          ELSE [kind |-> "object", ids |-> ids]

importMerge(data) ==
  LET r == ImportMerge(blob, data)
  IN /\ Size(load(r.blob)) <= room
     /\ blob' = r.blob
     /\ ret' = r.ret
     /\ saves' = r.saves
     /\ clock' = clock
     /\ op' = "importMerge"
     /\ arg' = Summary(data)

\* exportAll(): load() parses the blob afresh, so the result is a copy
exportAll ==
  /\ blob' = loaded(blob)
  /\ ret' = Val("store", Db)
  /\ clock' = clock
  /\ op' = "exportAll"
  /\ saves' = 0
  /\ arg' = [kind |-> "none"]

\* importMerge(exportAll())
importMergeExportAll ==
  LET data == Val("object", load(blob))
      r == ImportMerge(loaded(blob), data)
  IN /\ blob' = r.blob
     /\ ret' = r.ret
     /\ saves' = r.saves
     /\ clock' = clock
     /\ op' = "importMerge(exportAll())"
     /\ arg' = [kind |-> "none"]

\* ----------------------------------------------------------------- queries
\* .sort((a, b) => (a.createdAt < b.createdAt ? 1 : -1)): newest first; the
\* comparator never answers 0, so the order of records with equal createdAt
\* is whatever the engine's sort makes of it
sortNewestFirst(s) ==
  {[i \in DOMAIN s |-> s[p[i]]] :
     p \in {q \in Permutations(DOMAIN s) :
              \A i, j \in DOMAIN s :
                 i < j => s[q[i]].createdAt >= s[q[j]].createdAt}}

\* a query: load() and an answer, nothing saved
Query(name, a, answer) ==
  /\ blob' = loaded(blob)
  /\ ret' = answer
  /\ clock' = clock
  /\ op' = name
  /\ arg' = a
  /\ saves' = 0

getItem(id) ==
  LET i == FindIndex(Db.items, LAMBDA x : x.id = id)
  IN Query("getItem", Val("id", id),
           IF i = 0 THEN RetNull ELSE Val("item", Db.items[i]))

listItemsByStudent(studentId) ==
  \E l \in sortNewestFirst(SelectSeq(Db.items, LAMBDA x : x.studentId = studentId)) :
    Query("listItemsByStudent", Val("studentId", studentId), Val("list", l))

listLostItems ==
  \E l \in sortNewestFirst(SelectSeq(Db.items, LAMBDA x : x.status = "lost")) :
    Query("listLostItems", [kind |-> "none"], Val("list", l))

\* item?.key || d
ItemField(db, itemId, key, d) ==
  LET i == FindIndex(db.items, LAMBDA x : x.id = itemId)
  IN IF i = 0 THEN d ELSE OrDefault(db.items[i][key], d)

PendingRow(db, report) ==
  SetField(SetField(SetField(report,
    "itemName", ItemField(db, report.itemId, "itemName", "Unknown")),
    "ownerName", ItemField(db, report.itemId, "ownerName", "")),
    "itemPhoto", ItemField(db, report.itemId, "photoPath", NULL))

listPendingReportsWithItem ==
  \E l \in sortNewestFirst(SelectSeq(Db.found_reports, LAMBDA x : x.status = "pending")) :
    Query("listPendingReportsWithItem", [kind |-> "none"],
          Val("list", [i \in DOMAIN l |-> PendingRow(Db, l[i])]))

ClaimRow(db, claim) ==
  SetField(SetField(SetField(claim,
    "itemName", ItemField(db, claim.itemId, "itemName", "")),
    "ownerName", ItemField(db, claim.itemId, "ownerName", "")),
    "studentId", ItemField(db, claim.itemId, "studentId", ""))

\* variant: the store with its claims sorted is saved back
listClaimsWithItem_savesSorted ==
  \E l \in sortNewestFirst(Db.claims) :
    /\ blob' = save([Db EXCEPT !.claims = l])
    /\ ret' = Val("list", [i \in DOMAIN l |-> ClaimRow(Db, l[i])])
    /\ clock' = clock
    /\ op' = "listClaimsWithItem"
    /\ saves' = 1
    /\ arg' = [kind |-> "none"]

listClaimsWithItem ==
  \E l \in sortNewestFirst(Db.claims) :
    Query("listClaimsWithItem", [kind |-> "none"],
          Val("list", [i \in DOMAIN l |-> ClaimRow(Db, l[i])]))

Count(s, Test(_)) == Cardinality({i \in DOMAIN s : Test(s[i])})

\* ------------------------------------------------ double-precision numbers
\* A positive Number is [m |-> bits, e |-> n]: the binary numeral `bits`
\* (most significant bit first, Mantissa bits, the first one 1) times 2^n.
RECURSIVE ToBits(_), FromBits(_), QuotientBits(_, _, _), QuotientRest(_, _, _),
          ShiftFor(_, _), MultiplyBits(_, _, _), Increment(_)

ToBits(n) == IF n = 0 THEN <<>> ELSE Append(ToBits(n \div 2), n % 2)

FromBits(bits) ==
  IF bits = <<>> THEN 0
  ELSE 2 * FromBits(SubSeq(bits, 1, Len(bits) - 1)) + bits[Len(bits)]

\* bits + 1; one bit longer when every bit is 1
Increment(bits) ==
  IF bits = <<>> THEN <<1>>
  ELSE IF bits[Len(bits)] = 0 THEN [bits EXCEPT ![Len(bits)] = 1]
  ELSE Append(Increment(SubSeq(bits, 1, Len(bits) - 1)), 0)

\* round to nearest, ties to even: the exact value is `bits` times 2^e, plus
\* something below the last bit when `sticky`; the result has Mantissa bits
RoundToNearestEven(bits, e, sticky) ==
  LET extra == Len(bits) - Mantissa
      kept == SubSeq(bits, 1, Mantissa)
      rest == SubSeq(bits, Mantissa + 1, Len(bits))
      below == sticky \/ \E i \in 2..Len(rest) : rest[i] = 1
      up == extra > 0 /\ rest[1] = 1 /\ (below \/ kept[Mantissa] = 1)
      m == IF up THEN Increment(kept) ELSE kept
  IN IF Len(m) > Mantissa
     THEN [m |-> SubSeq(m, 1, Mantissa), e |-> e + extra + 1]
     ELSE [m |-> m, e |-> e + extra]

\* the least k with a * 2^k >= b
ShiftFor(a, b) == IF a >= b THEN 0 ELSE 1 + ShiftFor(2 * a, b)

\* long division: the next n bits of r / b, where r < 2 * b
QuotientBits(r, b, n) ==
  IF n = 0 THEN <<>>
  ELSE IF r >= b THEN <<1>> \o QuotientBits(2 * (r - b), b, n - 1)
  ELSE <<0>> \o QuotientBits(2 * r, b, n - 1)

\* what is left of r after those n bits
QuotientRest(r, b, n) ==
  IF n = 0 THEN r
  ELSE IF r >= b THEN QuotientRest(2 * (r - b), b, n - 1)
  ELSE QuotientRest(2 * r, b, n - 1)

\* a / b for integers 0 < a <= b: the quotient rounded to a Number
Divide(a, b) ==
  LET k == ShiftFor(a, b)
      r == a * (2 ^ k)
  IN RoundToNearestEven(QuotientBits(r, b, Mantissa + 1), 0 - Mantissa - k,
                        QuotientRest(r, b, Mantissa + 1) # 0)

\* bits * n + carry as a numeral, for a small integer n
MultiplyBits(bits, n, carry) ==
  IF bits = <<>> THEN ToBits(carry)
  ELSE LET v == bits[Len(bits)] * n + carry
       IN IF v % 2 = 0
          THEN Append(MultiplyBits(SubSeq(bits, 1, Len(bits) - 1), n, v \div 2), 0)
          ELSE Append(MultiplyBits(SubSeq(bits, 1, Len(bits) - 1), n, v \div 2), 1)

\* x * n for a Number x and a small integer n: the product rounded to a Number
Multiply(x, n) == RoundToNearestEven(MultiplyBits(x.m, n, 0), x.e, FALSE)

\* Math.round(x) for a Number x below 2^Mantissa: the integer part, plus one
\* when the fraction is a half or more
MathRound(x) ==
  LET n == Len(x.m) + x.e
      whole == IF n >= 1 THEN FromBits(SubSeq(x.m, 1, n)) ELSE 0
      half == IF n >= 0 /\ n < Len(x.m) THEN x.m[n + 1] ELSE 0
  IN whole + half

\* Math.round((claimed / total) * 100), for 0 <= claimed <= total, total > 0
MathRoundPercent(claimed, total) ==
  IF claimed = 0 THEN 0
  ELSE MathRound(Multiply(Divide(claimed, total), 100))

\* total ? Math.round((claimed / total) * 100) : 0
RecoveryRate(claimed, total) ==
  IF total # 0 THEN MathRoundPercent(claimed, total) ELSE 0

\* variant: every item that is not claimed counts as lost
Analytics_lostIsNotClaimed(db) ==
  LET total == Len(db.items)
      claimed == Count(db.items, LAMBDA x : x.status = "claimed")
  IN [total |-> total,
      claimed |-> claimed,
      lost |-> Count(db.items, LAMBDA x : x.status # "claimed"),
      pendingReports |-> Count(db.found_reports, LAMBDA x : x.status = "pending"),
      recoveryRate |-> RecoveryRate(claimed, total)]

Analytics(db) ==
  LET total == Len(db.items)
      claimed == Count(db.items, LAMBDA x : x.status = "claimed")
  IN [total |-> total,
      claimed |-> claimed,
      lost |-> Count(db.items, LAMBDA x : x.status = "lost"),
      pendingReports |-> Count(db.found_reports, LAMBDA x : x.status = "pending"),
      recoveryRate |-> RecoveryRate(claimed, total)]

analytics == Query("analytics", [kind |-> "none"], Val("analytics", Analytics(Db)))

\* a store operation called directly: the rest of the state stays
Quiet == UNCHANGED <<room, tabs, page, scannedItemId, cameras>>

Next ==
  \/ \E f \in ItemFields : addItem(f) /\ Quiet
  \/ \E f \in ReportFields : addFoundReport(f) /\ Quiet
  \/ \E id \in ReportIdsOf(Db) \cup {0} : verifyReportMoveToLost(id) /\ Quiet
  \/ \E f \in ClaimFields : addClaim(f) /\ Quiet
  \/ \E data \in Snapshots : importMerge(data) /\ Quiet
  \/ exportAll /\ Quiet
  \/ importMergeExportAll /\ Quiet
  \/ \E id \in UUIDs : getItem(id) /\ Quiet
  \/ \E sid \in {"S1", "s1"} : listItemsByStudent(sid) /\ Quiet
  \/ listLostItems /\ Quiet
  \/ listPendingReportsWithItem /\ Quiet
  \/ listClaimsWithItem /\ Quiet
  \/ analytics /\ Quiet

Spec == Init /\ [][Next]_vars

\* ------------------------------------------------- the store without imports
\* the store as one browser builds it from nothing: the mutations and
\* analytics(), neither importMerge nor the other queries
InitLocal == Start(MaxLocalRecords)

NextLocal ==
  \/ \E f \in ItemFields : addItem(f) /\ Quiet
  \/ \E f \in ReportFields : addFoundReport(f) /\ Quiet
  \/ \E id \in ReportIdsOf(Db) \cup {0} : verifyReportMoveToLost(id) /\ Quiet
  \/ \E f \in ClaimFields : addClaim(f) /\ Quiet
  \/ analytics /\ Quiet

SpecLocal == InitLocal /\ [][NextLocal]_vars

\* ------------------------------------------------- malformed snapshots
\* Every operation of the store, importMerge with the snapshots that are no
\* object, the malformed objects and the objects holding one record.
ImportInputs ==
  {[kind |-> "null"], [kind |-> "number"], [kind |-> "object", val |-> <<>>]}
  \cup Malformed
  \cup {[kind |-> "object", val |-> [items |-> <<i>>]] : i \in SnapItems}
  \cup {[kind |-> "object", val |-> [found_reports |-> <<r>>]] : r \in SnapReports}
  \cup {[kind |-> "object", val |-> [claims |-> <<c>>]] : c \in SnapClaims}

InitImport == Start(MaxRecords)

NextImport ==
  \/ \E f \in ItemFields : addItem(f) /\ Quiet
  \/ \E f \in ReportFields : addFoundReport(f) /\ Quiet
  \/ \E id \in ReportIdsOf(Db) \cup {0} : verifyReportMoveToLost(id) /\ Quiet
  \/ \E f \in ClaimFields : addClaim(f) /\ Quiet
  \/ \E data \in ImportInputs : importMerge(data) /\ Quiet
  \/ exportAll /\ Quiet
  \/ \E id \in UUIDs : getItem(id) /\ Quiet
  \/ \E sid \in {"S1", "s1"} : listItemsByStudent(sid) /\ Quiet
  \/ listLostItems /\ Quiet
  \/ listPendingReportsWithItem /\ Quiet
  \/ listClaimsWithItem /\ Quiet
  \/ analytics /\ Quiet

SpecImport == InitImport /\ [][NextImport]_vars

\* ------------------------------------------------------ the list queries
\* The four list queries on stores built by the local operations, with the
\* item names and student ids that tell the queries' filters and fallbacks
\* apart: an empty itemName, a studentId in another case.
ListItemFields ==
  [itemName : {"", "Blue Wallet"}, studentId : {"S1", "s1"}, ownerName : {"Ana"},
   strand : {UNDEFINED}, email : {UNDEFINED}, contact : {UNDEFINED},
   photoDataUrl : {"x"}, category : {"wallets"}]

InitLists == Start(MaxListRecords)

NextLists ==
  \/ \E f \in ListItemFields : addItem(f) /\ Quiet
  \/ \E f \in ReportFields : addFoundReport(f) /\ Quiet
  \/ \E id \in ReportIdsOf(Db) \cup {0} : verifyReportMoveToLost(id) /\ Quiet
  \/ \E f \in ClaimFields : addClaim(f) /\ Quiet
  \/ \E sid \in {"S1", "s1"} : listItemsByStudent(sid) /\ Quiet
  \/ listLostItems /\ Quiet
  \/ listPendingReportsWithItem /\ Quiet
  \/ listClaimsWithItem /\ Quiet

SpecLists == InitLists /\ [][NextLists]_vars

\* ------------------------------------------------ two tabs on one store
\* Each tab runs addFoundReport once; localStorage is shared, and another
\* tab's getItem and setItem can fall between this tab's load() and save().
\* A tab that has loaded holds its own parsed copy of the store.

\* const db = load(), in tab w
tabLoad(w, f) ==
  /\ tabs[w].pc = "idle"
  /\ tabs' = [tabs EXCEPT ![w] = [pc |-> "loaded", f |-> f, db |-> load(blob)]]
  /\ blob' = loaded(blob)
  /\ clock' = clock
  /\ op' = "load"
  /\ saves' = 0
  /\ arg' = Val("tab", w)
  /\ ret' = [kind |-> "none"]
  /\ UNCHANGED <<room, page, scannedItemId, cameras>>

\* the store tab w saves and the report it returns, from the copy db
TabSaved(w, db, t) ==
  LET n == OrZero(db.seq.found_reports) + 1
      report == NewReport(n, tabs[w].f, t)
  IN [report |-> report,
      db |-> [db EXCEPT !.seq.found_reports = n,
                        !.found_reports = Append(@, report)]]

\* variant: the tab loads the store again before it pushes and saves
tabSave_reloads(w) ==
  \E t \in Times :
    LET out == TabSaved(w, load(blob), t)
    IN /\ tabs[w].pc = "loaded"
       /\ Now(t)
       /\ Size(out.db) <= room
       /\ blob' = save(out.db)
       /\ clock' = t
       /\ op' = "save"
       /\ saves' = 1
       /\ arg' = Val("tab", w)
       /\ ret' = Val("report", out.report)
       /\ tabs' = [tabs EXCEPT ![w] =
                     [pc |-> "done", base |-> tabs[w].db, db |-> out.db,
                      ret |-> out.report,
                      nth |-> 1 + Cardinality({v \in Tabs : tabs[v].pc = "done"})]]
       /\ UNCHANGED <<room, page, scannedItemId, cameras>>

\* the rest of addFoundReport in tab w: the push, save(db) and the return;
\* `base` is the copy it had loaded, `nth` its place among the saves
tabSave(w) ==
  \E t \in Times :
    LET out == TabSaved(w, tabs[w].db, t)
    IN /\ tabs[w].pc = "loaded"
       /\ Now(t)
       /\ Size(out.db) <= room
       /\ blob' = save(out.db)
       /\ clock' = t
       /\ op' = "save"
       /\ saves' = 1
       /\ arg' = Val("tab", w)
       /\ ret' = Val("report", out.report)
       /\ tabs' = [tabs EXCEPT ![w] =
                     [pc |-> "done", base |-> tabs[w].db, db |-> out.db,
                      ret |-> out.report,
                      nth |-> 1 + Cardinality({v \in Tabs : tabs[v].pc = "done"})]]
       /\ UNCHANGED <<room, page, scannedItemId, cameras>>

InitTabs == Start(MaxLocalRecords)

\* a report may have been filed before the two tabs start
NextTabs ==
  \/ \E f \in ReportFields :
       /\ \A w \in Tabs : tabs[w].pc = "idle"
       /\ addFoundReport(f)
       /\ Quiet
  \/ \E w \in Tabs, f \in ReportFields : tabLoad(w, f)
  \/ \E w \in Tabs : tabSave(w)

SpecTabs == InitTabs /\ [][NextTabs]_vars

\* ------------------------------------------- the async handlers of a page
\* The submit handlers of the register form and of the found form are async
\* functions: each runs until its `await fileToDataUrl(...)`, where another
\* handler of the page may run, and goes on from there later.  A call of the
\* store is synchronous code, hence one step.  `seen` remembers how many
\* records of the handler's collection were persisted when it started.

\* .toLowerCase(), on the item names of the model
toLowerCase(s) == IF s = "Blue Wallet" THEN "blue wallet" ELSE s

Done(h, seen, r) == [page EXCEPT ![h] = [pc |-> "done", seen |-> seen, ret |-> r]]

\* the handler goes on without a call of the store
Step(name, h) ==
  /\ op' = name
  /\ arg' = Val("handler", h)
  /\ saves' = 0
  /\ ret' = [kind |-> "none"]
  /\ clock' = clock

\* a found handler that has finished: `accepted` is the scannedItemId that
\* passed the check at line 416
FoundDone(h, seen, accepted, r) ==
  [page EXCEPT ![h] = [pc |-> "done", seen |-> seen, accepted |-> accepted,
                       ret |-> r]]

\* the form's fields; itemId is read from scannedItemId at the call
FoundFields == {f \in ReportFields : f.itemId = "u1"}

\* a scan result (tick, decodeFromImage): scannedItemId is assigned the
\* decoded text and loadScannedItem looks the item up with getItem
scan(id) ==
  /\ scannedItemId' = id
  /\ getItem(id)
  /\ UNCHANGED <<room, tabs, page, cameras>>

\* variant: the found handler loads the store before its await and saves that
\* copy after it
foundSubmit_loadsBeforeAwait(h) ==
  \/ /\ page[h].pc = "idle"
     /\ scannedItemId \in Falsy
     /\ page' = FoundDone(h, Len(Db.found_reports), scannedItemId,
                          [kind |-> "rejected"])
     /\ Step("alert", h)
     /\ blob' = blob
     /\ UNCHANGED <<room, tabs, scannedItemId, cameras>>
  \/ \E f \in FoundFields :
       /\ page[h].pc = "idle"
       /\ scannedItemId \notin Falsy
       /\ IF f.photoDataUrl = UNDEFINED
          THEN /\ addFoundReport([f EXCEPT !.itemId = scannedItemId])
               /\ page' = FoundDone(h, Len(Db.found_reports), scannedItemId, ret')
               /\ scannedItemId' = NULL
          ELSE /\ page' = [page EXCEPT ![h] =
                             [pc |-> "await", f |-> f, db |-> Db,
                              accepted |-> scannedItemId,
                              seen |-> Len(Db.found_reports)]]
               /\ Step("await", h)
               /\ blob' = loaded(blob)
               /\ scannedItemId' = scannedItemId
       /\ UNCHANGED <<room, tabs, cameras>>
  \/ \E t \in Times :
       LET db == page[h].db
           n == OrZero(db.seq.found_reports) + 1
           f == [page[h].f EXCEPT !.itemId = scannedItemId]
           report == NewReport(n, f, t)
       IN /\ page[h].pc = "await"
          /\ Now(t)
          /\ Size(Db) < room
          /\ blob' = save([db EXCEPT !.seq.found_reports = n,
                                     !.found_reports = Append(@, report)])
          /\ clock' = t
          /\ op' = "addFoundReport"
          /\ saves' = 1
          /\ arg' = Val("fields", f)
          /\ ret' = Val("report", report)
          /\ page' = FoundDone(h, page[h].seen, page[h].accepted, ret')
          /\ scannedItemId' = NULL
          /\ UNCHANGED <<room, tabs, cameras>>

\* foundForm "submit": without a scannedItemId the handler alerts and
\* returns; with a photo chosen it awaits the photo's data URL; then it calls
\* addFoundReport with the scannedItemId of that moment and sets
\* scannedItemId to null
foundSubmit(h) ==
  \/ /\ page[h].pc = "idle"
     /\ scannedItemId \in Falsy
     /\ page' = FoundDone(h, Len(Db.found_reports), scannedItemId,
                          [kind |-> "rejected"])
     /\ Step("alert", h)
     /\ blob' = blob
     /\ UNCHANGED <<room, tabs, scannedItemId, cameras>>
  \/ \E f \in FoundFields :
       /\ page[h].pc = "idle"
       /\ scannedItemId \notin Falsy
       /\ IF f.photoDataUrl = UNDEFINED
          THEN /\ addFoundReport([f EXCEPT !.itemId = scannedItemId])
               /\ page' = FoundDone(h, Len(Db.found_reports), scannedItemId, ret')
               /\ scannedItemId' = NULL
          ELSE /\ page' = [page EXCEPT ![h] =
                             [pc |-> "await", f |-> f,
                              accepted |-> scannedItemId,
                              seen |-> Len(Db.found_reports)]]
               /\ Step("await", h)
               /\ blob' = blob
               /\ scannedItemId' = scannedItemId
       /\ UNCHANGED <<room, tabs, cameras>>
  \/ /\ page[h].pc = "await"
     /\ addFoundReport([page[h].f EXCEPT !.itemId = scannedItemId])
     /\ page' = FoundDone(h, page[h].seen, page[h].accepted, ret')
     /\ scannedItemId' = NULL
     /\ UNCHANGED <<room, tabs, cameras>>

\* register form "submit": the name is checked against the student's items,
\* then the photo comes from the camera capture (no await) or from the chosen
\* file (await fileToDataUrl), then addItem is called
registerSubmit(h) ==
  \/ \E f \in ItemFields, via \in {"camera", "file"} :
       LET existing ==
             \E i \in DOMAIN Db.items :
                /\ Db.items[i].studentId = f.studentId
                /\ toLowerCase(Db.items[i].itemName) = toLowerCase(f.itemName)
       IN /\ page[h].pc = "idle"
          /\ IF existing
             THEN /\ page' = Done(h, Len(Db.items), [kind |-> "rejected"])
                  /\ Step("alert", h)
                  /\ blob' = loaded(blob)
             ELSE IF via = "camera"
             THEN /\ addItem(f)
                  /\ page' = Done(h, Len(Db.items), ret')
             ELSE /\ page' = [page EXCEPT ![h] =
                                [pc |-> "await", f |-> f, seen |-> Len(Db.items)]]
                  /\ Step("await", h)
                  /\ blob' = loaded(blob)
          /\ UNCHANGED <<room, tabs, scannedItemId, cameras>>
  \/ /\ page[h].pc = "await"
     /\ addItem(page[h].f)
     /\ page' = Done(h, page[h].seen, ret')
     /\ UNCHANGED <<room, tabs, scannedItemId, cameras>>

FoundHandlers == {"found1", "found2"}
RegisterHandlers == Handlers \ FoundHandlers

InitPage == Start(MaxLocalRecords)

NextPage ==
  \/ \E id \in UUIDs : scan(id)
  \/ \E h \in FoundHandlers : foundSubmit(h)
  \/ \E h \in RegisterHandlers : registerSubmit(h)

SpecPage == InitPage /\ [][NextPage]_vars

\* ------------------------------------------------ the cameras of the page
\* startCameraScan and startRegCamera are async: each runs to its
\* `await getUserMedia(...)`, goes on when the stream is granted, and runs to
\* `await video.play()`.  The router and the stop buttons run in between.

\* stopCamera(): the scan loop is told to end and the tracked stream stopped
stopCamera(c) ==
  [c EXCEPT !.scanning = FALSE,
            !.live["#scan"] = @ \ {c.mediaStream},
            !.mediaStream = NoStream]

\* stopRegCamera(): the tracked stream is stopped
stopRegCamera(c) ==
  [c EXCEPT !.live["#register"] = @ \ {c.regMediaStream},
            !.regMediaStream = NoStream]

\* setActivePanel() for the new hash: the cameras of the other panels are
\* stopped
setActivePanel(c, hash) ==
  LET c1 == [c EXCEPT !.hash = hash]
      c2 == IF hash # "#scan" THEN stopCamera(c1) ELSE c1
  IN IF hash # "#register" THEN stopRegCamera(c2) ELSE c2

\* "hashchange": the user goes to another panel
hashchange(hash) ==
  /\ hash # cameras.hash
  /\ cameras' = setActivePanel(cameras, hash)
  /\ Step("hashchange", hash)
  /\ blob' = blob
  /\ UNCHANGED <<room, tabs, page, scannedItemId>>

\* a click on the start button of the panel shown: the handler runs to its
\* await of getUserMedia; startRegCamera returns when a stream is tracked
startCamera(h) ==
  /\ cameras.hash = PanelOf(h)
  /\ cameras.starts[h] = "idle"
  /\ cameras' =
       [cameras EXCEPT !.starts[h] =
          IF PanelOf(h) = "#register" /\ cameras.regMediaStream # NoStream
          THEN "done" ELSE "getUserMedia"]
  /\ Step("startCamera", h)
  /\ blob' = blob
  /\ UNCHANGED <<room, tabs, page, scannedItemId>>

\* getUserMedia resolves with a new stream, which the handler assigns to
\* mediaStream (regMediaStream), or rejects (the catch alerts)
getUserMedia(h) ==
  /\ cameras.starts[h] = "getUserMedia"
  /\ \/ /\ cameras.granted < MaxStreams
        /\ LET s == cameras.granted + 1
               c == [cameras EXCEPT !.granted = s,
                                    !.live[PanelOf(h)] = @ \cup {s},
                                    !.starts[h] = "play"]
           IN cameras' = IF PanelOf(h) = "#scan"
                         THEN [c EXCEPT !.mediaStream = s]
                         ELSE [c EXCEPT !.regMediaStream = s]
     \/ cameras' = [cameras EXCEPT !.starts[h] = "done"]
  /\ Step("getUserMedia", h)
  /\ blob' = blob
  /\ UNCHANGED <<room, tabs, page, scannedItemId>>

\* video.play() resolves: startCameraScan sets scanning and starts the tick
\* loop, startRegCamera returns; or it rejects (the catch alerts)
play(h) ==
  /\ cameras.starts[h] = "play"
  /\ \/ cameras' = [cameras EXCEPT
                       !.starts[h] = "done",
                       !.scanning = IF PanelOf(h) = "#scan" THEN TRUE ELSE @]
     \/ cameras' = [cameras EXCEPT !.starts[h] = "done"]
  /\ Step("play", h)
  /\ blob' = blob
  /\ UNCHANGED <<room, tabs, page, scannedItemId>>

\* a click on the stop button of the panel shown
stopClick ==
  /\ cameras.hash \in CameraPanels
  /\ cameras' = IF cameras.hash = "#scan" THEN stopCamera(cameras)
                ELSE stopRegCamera(cameras)
  /\ Step("stop", cameras.hash)
  /\ blob' = blob
  /\ UNCHANGED <<room, tabs, page, scannedItemId>>

\* tick finds a QR code in a frame of the running stream: scannedItemId is
\* set, the camera stopped and the item looked up
tick(id) ==
  /\ cameras.scanning
  /\ cameras.mediaStream \in cameras.live["#scan"]
  /\ scannedItemId' = id
  /\ cameras' = stopCamera(cameras)
  /\ getItem(id)
  /\ UNCHANGED <<room, tabs, page>>

InitCamera == Start(MaxRecords)

NextCamera ==
  \/ \E hash \in Panels : hashchange(hash)
  \/ \E h \in Starters : startCamera(h)
  \/ \E h \in Starters : getUserMedia(h)
  \/ \E h \in Starters : play(h)
  \/ stopClick
  \/ \E id \in UUIDs : tick(id)

SpecCamera == InitCamera /\ [][NextCamera]_vars

\* ------------------------------------------- the recovery rate by counts
\* analytics() computes recoveryRate from two counts of db.items alone; here
\* the counts are drawn directly, up to MaxTotal items, the store that holds
\* them left out
Counts ==
  {n \in [total : 0..MaxTotal, claimed : 0..MaxTotal] : n.claimed <= n.total}

InitRate ==
  /\ blob = Absent
  /\ clock = 0
  /\ op = "none"
  /\ arg \in {Val("counts", n) : n \in Counts}
  /\ ret = [kind |-> "none"]
  /\ saves = 0
  /\ room = 0
  /\ tabs = [w \in Tabs |-> Idle]
  /\ page = [h \in Handlers |-> Idle]
  /\ scannedItemId = NULL
  /\ cameras = NoCameras

recoveryRate ==
  /\ op = "none"
  /\ arg.kind = "counts"
  /\ op' = "recoveryRate"
  /\ ret' = Val("number", RecoveryRate(arg.val.claimed, arg.val.total))
  /\ UNCHANGED <<blob, clock, arg, saves, room, tabs, page, scannedItemId, cameras>>

NextRate == recoveryRate

SpecRate == InitRate /\ [][NextRate]_vars

\* ================================================================== claims
\* Db is the store before a step and Db' the store after it.  No operation
\* removes or reorders persisted records, so index i names the same record
\* in both.
ItemsAt(db, id) == {i \in DOMAIN db.items : db.items[i].id = id}
ReportsAt(db, id) == {i \in DOMAIN db.found_reports : db.found_reports[i].id = id}
Truthy(v) == v \notin Falsy

\* C1: an item's status never regresses: once claimed it stays claimed, and
\* once lost it is never registered again, whatever operation runs.
C1_StatusNeverRegresses ==
  [][\A i \in DOMAIN Db.items :
       /\ Db.items[i].status = "claimed" => Db'.items[i].status = "claimed"
       /\ Db.items[i].status = "lost" => Db'.items[i].status # "registered"]_vars

\* C2: no transition skips a state: an item that becomes claimed was lost
\* immediately before.
C2_ClaimedOnlyFromLost ==
  [][\A i \in DOMAIN Db.items :
       (Db.items[i].status # "claimed" /\ Db'.items[i].status = "claimed")
         => Db.items[i].status = "lost"]_vars

\* C3: in every reachable store no two records of one collection share an id.
Injective(s) == \A i, j \in DOMAIN s : s[i].id = s[j].id => i = j
C3_IdsUnique ==
  /\ Injective(Db.items)
  /\ Injective(Db.found_reports)
  /\ Injective(Db.claims)

C6_VerifyFailureIsNoOp ==
  [][(/\ op' = "verifyReportMoveToLost"
      /\ \A r \in ReportsAt(Db, arg'.val) :
           ItemsAt(Db, Db.found_reports[r].itemId) = {})
       => /\ ret' = RetFalse
          /\ Db' = Db
          /\ JSONparses(blob) => blob' = blob]_vars

\* verification of a pending report whose item is not in the store has failed
C6_Witness ==
  /\ op = "verifyReportMoveToLost"
  /\ ret = RetFalse
  /\ Db.items # <<>>
  /\ \E r \in ReportsAt(Db, arg.val) :
       /\ ItemsAt(Db, Db.found_reports[r].itemId) = {}
       /\ Db.found_reports[r].status = "pending"

\* C7: when verifyReportMoveToLost(r) returns true, report r is verified, its
\* item is lost, the item's foundPhotoPath is r's photo if r has one and is
\* untouched otherwise, and every other item, every other report, the claims
\* and both counters are unchanged.
SamePhoto(a, b) ==
  /\ Has(a, "foundPhotoPath") <=> Has(b, "foundPhotoPath")
  /\ Has(a, "foundPhotoPath") => a.foundPhotoPath = b.foundPhotoPath
ClaimsFor(db, id) == {k \in DOMAIN db.claims : db.claims[k].itemId = id}
C9_ClaimUnknownItem ==
  [][(op' = "addClaim" /\ ItemsAt(Db, arg'.val.itemId) = {}) =>
       /\ ret' = RetNull
       /\ Db'.claims = Db.claims
       /\ Db'.seq = Db.seq
       /\ Db'.items = Db.items
       /\ JSONparses(blob) => blob' = blob]_vars

\* addClaim has returned null on a store that holds another item and a claim
C9_Witness ==
  /\ op = "addClaim"
  /\ ret = RetNull
  /\ Db.items # <<>>
  /\ Db.claims # <<>>

\* C10: importMerge(exportAll()) returns true and changes nothing: no record
\* is added or altered and both counters keep their values.
C10_RoundTrip ==
  [][op' = "importMerge(exportAll())" =>
       /\ ret' = RetTrue
       /\ Db' = Db
       /\ JSONparses(blob) => blob' = blob]_vars

\* the round trip has run on a store that holds an item and its claim
C10_Witness ==
  /\ op = "importMerge(exportAll())"
  /\ Db.items # <<>>
  /\ Db.claims # <<>>
  /\ Db.seq.claims > 0

\* the sequence s is the beginning of the sequence t
IsPrefix(s, t) == Len(s) <= Len(t) /\ SubSeq(t, 1, Len(s)) = s

ImportOps == {"importMerge", "importMerge(exportAll())"}

\* C11: importMerge never overwrites or deletes an existing record: every
\* record of the three collections is there after the import with the same
\* field values and in the same relative order, also when the snapshot holds
\* a record of the same id
C11_MergeKeepsExisting ==
  [][op' \in ImportOps =>
       /\ IsPrefix(Db.items, Db'.items)
       /\ IsPrefix(Db.found_reports, Db'.found_reports)
       /\ IsPrefix(Db.claims, Db'.claims)]_vars

\* an import has met an item registered here ("Ana") and a report filed here
\* ("Ben") whose ids the snapshot holds too, with other field values
C11_Witness ==
  /\ op = "importMerge"
  /\ ret = RetTrue
  /\ \E i \in DOMAIN Db.items :
        /\ Db.items[i].ownerName = "Ana"
        /\ Db.items[i].id \in arg.ids.items
  /\ \E r \in DOMAIN Db.found_reports :
        /\ Db.found_reports[r].finderName = "Ben"
        /\ Db.found_reports[r].id \in arg.ids.found_reports

C15_OnlyAddClaimClaims ==
  [][\A i \in DOMAIN Db.items :
       (/\ Db.items[i].status # "claimed"
        /\ i \in DOMAIN Db'.items
        /\ Db'.items[i].status = "claimed")
       => /\ op' = "addClaim"
          /\ ret'.kind = "claim"
          /\ arg'.val.itemId = Db.items[i].id]_vars

\* an import has met a lost item whose id the snapshot holds as claimed
C15_Witness ==
  /\ op = "importMerge"
  /\ ret = RetTrue
  /\ \E i \in DOMAIN Db.items :
        /\ Db.items[i].status = "lost"
        /\ Db.items[i].id \in arg.ids.items

\* the number of records of s whose status is st
WithStatus(s, st) == Len(SelectSeq(s, LAMBDA x : x.status = st))

\* C16: analytics() returns the number of items, of lost items, of claimed
\* items and of pending reports of the store; all zero, the rate included, on
\* the empty store; lost + claimed <= total and 0 <= recoveryRate <= 100
C16_AnalyticsCounts ==
  op = "analytics" =>
    LET a == ret.val
    IN /\ a.total = Len(Db.items)
       /\ a.lost = WithStatus(Db.items, "lost")
       /\ a.claimed = WithStatus(Db.items, "claimed")
       /\ a.pendingReports = WithStatus(Db.found_reports, "pending")
       /\ (Db.items = <<>> /\ Db.found_reports = <<>> /\ Db.claims = <<>>) =>
             a = [total |-> 0, lost |-> 0, claimed |-> 0,
                  pendingReports |-> 0, recoveryRate |-> 0]
       /\ a.lost + a.claimed <= a.total
       /\ 0 <= a.recoveryRate /\ a.recoveryRate <= 100

\* analytics() of a store with a registered item, a claimed item and a
\* pending report: one of two items recovered
C16_Witness ==
  /\ op = "analytics"
  /\ WithStatus(Db.items, "registered") >= 1
  /\ ret.val.total = 2
  /\ ret.val.claimed = 1
  /\ ret.val.recoveryRate = 50

\* C17: recoveryRate is floor((200 * claimed + total) / (2 * total)), the
\* integer rounding half-up of 100 * claimed / total, and 0 when total = 0
C17_RoundHalfUp ==
  op = "recoveryRate" =>
    LET claimed == arg.val.claimed
        total == arg.val.total
    IN ret.val = IF total = 0 THEN 0
                 ELSE (200 * claimed + total) \div (2 * total)

\* C18: on a store built from nothing without imports, addItem returns a
\* registered item; the n-th addFoundReport returns the pending report n; a
\* verification of a report whose item is there returns true and the item is
\* lost; the n-th successful addClaim returns claim n and the item is claimed;
\* and after one item, its report 1 verified and its claim 1, analytics()
\* returns {total: 1, lost: 0, claimed: 1, pendingReports: 0, recoveryRate: 100}
C18_Scenario ==
  [][/\ op' = "addItem" => ret'.val.status = "registered"
     /\ Len(Db'.found_reports) =
          Len(Db.found_reports) + (IF op' = "addFoundReport" THEN 1 ELSE 0)
     /\ op' = "addFoundReport" =>
          /\ ret'.val.id = Len(Db'.found_reports)
          /\ ret'.val.status = "pending"
     /\ (/\ op' = "verifyReportMoveToLost"
         /\ \E r \in ReportsAt(Db, arg'.val) :
               ItemsAt(Db, Db.found_reports[r].itemId) # {}) =>
          /\ ret' = RetTrue
          /\ \E r \in ReportsAt(Db, arg'.val) :
               \E i \in ItemsAt(Db', Db.found_reports[r].itemId) :
                  Db'.items[i].status = "lost"
     /\ Len(Db'.claims) =
          Len(Db.claims) + (IF op' = "addClaim" /\ ret'.kind = "claim" THEN 1 ELSE 0)
     /\ (op' = "addClaim" /\ ret'.kind = "claim") =>
          /\ ret'.val.id = Len(Db'.claims)
          /\ \E i \in ItemsAt(Db', arg'.val.itemId) : Db'.items[i].status = "claimed"
     /\ (/\ op' = "analytics"
         /\ Len(Db.items) = 1 /\ Db.items[1].status = "claimed"
         /\ Len(Db.found_reports) = 1 /\ Db.found_reports[1].status = "verified"
         /\ Len(Db.claims) = 1) =>
          ret'.val = [total |-> 1, lost |-> 0, claimed |-> 1,
                      pendingReports |-> 0, recoveryRate |-> 100]]_vars

\* the end of the scenario: one item, claimed after its report 1 was verified
\* and its claim 1 made, and analytics() has answered
C18_Witness ==
  /\ op = "analytics"
  /\ ret.val = [total |-> 1, lost |-> 0, claimed |-> 1,
                pendingReports |-> 0, recoveryRate |-> 100]
  /\ Len(Db.items) = 1
  /\ Db.items[1].status = "claimed"
  /\ Has(Db.items[1], "foundPhotoPath")
  /\ Len(Db.found_reports) = 1
  /\ Db.found_reports[1].id = 1
  /\ Db.found_reports[1].itemId = Db.items[1].id
  /\ Db.found_reports[1].status = "verified"
  /\ Len(Db.claims) = 1
  /\ Db.claims[1].id = 1
  /\ Db.claims[1].itemId = Db.items[1].id

QueryOps ==
  {"getItem", "listItemsByStudent", "listLostItems", "listPendingReportsWithItem",
   "listClaimsWithItem", "analytics", "exportAll"}

\* C19, as stated: no query changes what is persisted, whether the blob is
\* well-formed, absent or malformed
C19_QueriesNeverWrite ==
  [][op' \in QueryOps => blob' = blob]_vars

\* C19, amended: a query leaves a well-formed blob as it is, the order of the
\* claims included; on an absent or malformed blob its load() persists the
\* empty store; in both cases the store the next load() returns is the same
C19_QueriesKeepStore ==
  [][op' \in QueryOps =>
       /\ Db' = Db
       /\ Db'.claims = Db.claims
       /\ JSONparses(blob) => blob' = blob
       /\ ~JSONparses(blob) => blob' = save(EmptyDb)]_vars

\* listClaimsWithItem has returned two claims in the reverse of the order in
\* which they are persisted
C19_Witness ==
  /\ op = "listClaimsWithItem"
  /\ Len(Db.claims) = 2
  /\ Db.claims[1].id # Db.claims[2].id
  /\ ret.val[1].id = Db.claims[2].id
  /\ ret.val[2].id = Db.claims[1].id

\* the call returns before load(): importMerge of what is not an object
ReturnsBeforeLoad == op' = "importMerge" /\ arg'.kind # "object"

\* what an operation does on the empty store: what it returns and what it saves
OnEmptyStore ==
  CASE op' = "addItem" ->
         Db' = [EmptyDb EXCEPT !.items = <<ret'.val>>]
    [] op' = "addFoundReport" ->
         /\ ret'.val.id = 1
         /\ Db' = [EmptyDb EXCEPT !.found_reports = <<ret'.val>>,
                                  !.seq.found_reports = 1]
    [] op' = "verifyReportMoveToLost" -> ret' = RetFalse /\ Db' = EmptyDb
    [] op' = "addClaim" -> ret' = RetNull /\ Db' = EmptyDb
    [] op' = "getItem" -> ret' = RetNull /\ Db' = EmptyDb
    [] op' \in {"listItemsByStudent", "listLostItems",
                "listPendingReportsWithItem", "listClaimsWithItem"} ->
         ret' = Val("list", <<>>) /\ Db' = EmptyDb
    [] op' = "analytics" ->
         /\ ret'.val = [total |-> 0, lost |-> 0, claimed |-> 0,
                        pendingReports |-> 0, recoveryRate |-> 0]
         /\ Db' = EmptyDb
    [] op' = "exportAll" -> ret' = Val("store", EmptyDb) /\ Db' = EmptyDb
    [] op' = "importMerge(exportAll())" -> ret' = RetTrue /\ Db' = EmptyDb
    [] op' = "importMerge" /\ Has(arg', "bad") ->
         ret' = Raised /\ Db' = EmptyDb
    [] op' = "importMerge" /\ ~Has(arg', "bad") ->
         /\ ret' = RetTrue
         /\ IdsOf(Db'.items) = arg'.ids.items
         /\ IdsOf(Db'.found_reports) = arg'.ids.found_reports
         /\ IdsOf(Db'.claims) = arg'.ids.claims
         /\ Db'.seq.found_reports = SetMax({0} \cup arg'.ids.found_reports)
         /\ Db'.seq.claims = SetMax({0} \cup arg'.ids.claims)

C12_LastWriteWins ==
  \A a, b \in Tabs :
    (/\ tabs[a].pc = "done" /\ tabs[b].pc = "done"
     /\ tabs[a].nth < tabs[b].nth
     /\ tabs[a].base = tabs[b].base) =>
       /\ Db = tabs[b].db
       /\ Len(Db.found_reports) = Len(tabs[a].base.found_reports) + 1
       /\ Db.found_reports[Len(Db.found_reports)] = tabs[b].ret
       /\ tabs[a].ret # tabs[b].ret =>
             \A r \in DOMAIN Db.found_reports : Db.found_reports[r] # tabs[a].ret
       /\ tabs[a].ret.id = tabs[b].ret.id
       /\ Db.seq.found_reports = tabs[b].ret.id

\* both tabs had loaded a store holding report 1; A saved a report for item
\* u1, then B one for item u2: both are report 2 and only B's is persisted
C12_Witness ==
  /\ tabs["A"].pc = "done" /\ tabs["B"].pc = "done"
  /\ tabs["A"].nth = 1 /\ tabs["B"].nth = 2
  /\ tabs["A"].base = tabs["B"].base
  /\ Len(tabs["A"].base.found_reports) = 1
  /\ tabs["A"].ret.itemId = "u1" /\ tabs["B"].ret.itemId = "u2"
  /\ tabs["A"].ret.id = 2 /\ tabs["B"].ret.id = 2
  /\ Len(Db.found_reports) = 2

\* the handlers of the set H whose call of the store has returned a record
Completed(H) == {h \in H : page[h].pc = "done" /\ page[h].ret.kind # "rejected"}

\* C13: however the handlers of one page interleave at their awaits, every
\* call of the store runs as a whole: each record a completed call returned
\* is persisted, the collections hold one record per completed call, and each
\* addFoundReport saw the reports of the calls completed before it (its id is
\* above the number of reports persisted when its handler started, the ids
\* differ, and the counter is the number of reports)
C13_StoreOpsAtomic ==
  /\ \A h \in Completed(FoundHandlers) :
        /\ \E r \in DOMAIN Db.found_reports : Db.found_reports[r] = page[h].ret.val
        /\ page[h].ret.val.id > page[h].seen
  /\ \A h \in Completed(RegisterHandlers) :
        \E i \in DOMAIN Db.items : Db.items[i] = page[h].ret.val
  /\ Len(Db.found_reports) = Cardinality(Completed(FoundHandlers))
  /\ Len(Db.items) = Cardinality(Completed(RegisterHandlers))
  /\ \A g, h \in Completed(FoundHandlers) :
        g # h => page[g].ret.val.id # page[h].ret.val.id
  /\ Db.seq.found_reports = Len(Db.found_reports)

\* found1 was suspended at its await before any report was persisted and
\* got report 2 after found2's report 1, with a photo; a register handler
\* that awaited its photo has added its item in between or after
C13_Witness ==
  /\ {"found1", "found2"} \subseteq Completed(FoundHandlers)
  /\ page["found1"].seen = 0
  /\ page["found1"].ret.val.id = 2
  /\ page["found1"].ret.val.photoPath = "photo"
  /\ page["found2"].ret.val.id = 1
  /\ page["found2"].ret.val.photoPath = "photo"
  /\ page["register1"].pc = "done"
  /\ page["register1"].ret.kind = "item"
  /\ Len(Db.found_reports) = 2
  /\ Len(Db.items) = 1

\* C21: importMerge returns false and leaves the store as it was for every
\* snapshot that is not a well-formed record (null, a non-object, an object
\* with a collection that is no sequence of records), and never raises; it
\* returns true for every well-formed snapshot, also when nothing is merged
C21_ImportReturnValue ==
  [][op' = "importMerge" =>
       IF arg'.kind # "object" \/ Has(arg', "bad")
       THEN /\ ret' = RetFalse
            /\ Db' = Db
            /\ JSONparses(blob) => blob' = blob
       ELSE ret' = RetTrue]_vars

\* C22: when a later collection of the snapshot is malformed, the items
\* merged before it are in the persisted store after the call
C22_NoRollback ==
  [][(/\ op' = "importMerge"
      /\ Has(arg', "bad")
      /\ arg'.bad # "items") =>
        arg'.ids.items \subseteq ItemIdsOf(Db')]_vars

\* the reports of db that are pending and whose itemId matches no item
Dangling(db) ==
  {r \in DOMAIN db.found_reports :
     /\ db.found_reports[r].status = "pending"
     /\ ItemsAt(db, db.found_reports[r].itemId) = {}}

\* C25: addFoundReport succeeds for any itemId, appends exactly one report,
\* pending and with id = previous found_reports counter + 1, and changes no
\* item; without imports a pending report whose itemId matches no item stays
\* pending and without an item, whatever addItem, addFoundReport,
\* verifyReportMoveToLost or addClaim call comes next
C25_DanglingStaysPending ==
  [][/\ op' = "addFoundReport" =>
          /\ ret'.kind = "report"
          /\ ret'.val.itemId = arg'.val.itemId
          /\ ret'.val.status = "pending"
          /\ ret'.val.id = OrZero(Db.seq.found_reports) + 1
          /\ Db'.found_reports = Append(Db.found_reports, ret'.val)
          /\ Db'.items = Db.items
     /\ \A r \in Dangling(Db) : r \in Dangling(Db')]_vars

\* report 1 names an item the store never held; an item and a second report
\* were added since, and verifying report 1 has just failed
C25_Witness ==
  /\ op = "verifyReportMoveToLost"
  /\ arg.val = 1
  /\ ret = RetFalse
  /\ Len(Db.items) = 1
  /\ Len(Db.found_reports) = 2
  /\ 1 \in Dangling(Db)
  /\ Db.found_reports[2].itemId = Db.items[1].id

SeqIds(s) == {s[i].id : i \in DOMAIN s}
\* each counter is at least every id of its collection
Dominates(db) ==
  /\ \A id \in SeqIds(db.found_reports) : OrZero(db.seq.found_reports) >= id
  /\ \A id \in SeqIds(db.claims) : OrZero(db.seq.claims) >= id
\* the ids of each collection are 1..counter, each once
Exact(db) ==
  /\ SeqIds(db.found_reports) = 1..OrZero(db.seq.found_reports)
  /\ SeqIds(db.claims) = 1..OrZero(db.seq.claims)
  /\ Injective(db.found_reports)
  /\ Injective(db.claims)

\* C26: in every reachable store seq.found_reports is at least the id of
\* every found report and seq.claims at least the id of every claim; the ids
\* are exactly 1..counter in the first store, and every operation that is no
\* import keeps them so
C26_CountersDominateIds ==
  /\ Exact(Db)
  /\ [][/\ Dominates(Db')
        /\ (Exact(Db) /\ op' \notin ImportOps) => Exact(Db')]_vars

\* a report with id 3 was imported and addFoundReport has just added report
\* 4: the counter is 4 and the ids are not 1..4
C26_Witness ==
  /\ op = "addFoundReport"
  /\ Db.seq.found_reports = 4
  /\ SeqIds(Db.found_reports) = {3, 4}
  /\ ~Exact(Db)

\* C27: without imports, an item has lastClaimedAt exactly when a claim
\* names it, a claimed item is named by a claim, an item that is lost or has
\* a foundPhotoPath is named by a verified report, and every verified report
\* names an item of the store that is not registered
C27_StatusBackedByRecords ==
  LET db == Db
      verifiedFor(id) == {r \in DOMAIN db.found_reports :
                            /\ db.found_reports[r].itemId = id
                            /\ db.found_reports[r].status = "verified"}
  IN /\ \A i \in DOMAIN db.items :
          LET item == db.items[i]
          IN /\ Has(item, "lastClaimedAt") <=> ClaimsFor(db, item.id) # {}
             /\ item.status = "claimed" => ClaimsFor(db, item.id) # {}
             /\ (item.status = "lost" \/ Has(item, "foundPhotoPath")) =>
                  verifiedFor(item.id) # {}
     /\ \A r \in DOMAIN db.found_reports :
          db.found_reports[r].status = "verified" =>
            \E i \in ItemsAt(db, db.found_reports[r].itemId) :
               db.items[i].status # "registered"

\* an item that was claimed and whose report was verified afterwards: it is
\* lost again, with its claim and its verified report in the store
C27_Witness ==
  /\ Len(Db.items) = 1
  /\ Db.items[1].status = "lost"
  /\ Has(Db.items[1], "lastClaimedAt")
  /\ Has(Db.items[1], "foundPhotoPath")
  /\ ClaimsFor(Db, Db.items[1].id) # {}
  /\ \E r \in DOMAIN Db.found_reports : Db.found_reports[r].status = "verified"

\* C29: however the register handlers interleave, the store never holds two
\* items of one studentId whose lower-cased itemName is the same
C29_OneNamePerOwner ==
  \A i, j \in DOMAIN Db.items :
     (/\ Db.items[i].studentId = Db.items[j].studentId
      /\ toLowerCase(Db.items[i].itemName) = toLowerCase(Db.items[j].itemName))
       => i = j

\* C30: however found handlers and scan results interleave, every report
\* created through the found form has a non-empty itemId, the one that was
\* scanned when its submit was accepted, and every accepted submit that has
\* finished created exactly one report
C30_FoundFormIntegrity ==
  /\ \A h \in Completed(FoundHandlers) :
        /\ page[h].ret.val.itemId \notin Falsy
        /\ page[h].ret.val.itemId = page[h].accepted
  /\ Len(Db.found_reports) = Cardinality(Completed(FoundHandlers))

\* the last operation failed: verify answered false, addClaim null, importMerge
\* false or a TypeError
Failed ==
  \/ op' = "verifyReportMoveToLost" /\ ret' = RetFalse
  \/ op' = "addClaim" /\ ret' = RetNull
  \/ op' = "importMerge" /\ ret' \in {RetFalse, Raised}

\* C28: every operation calls save(db) once or not at all after its load();
\* without a save the store is as before; a failing operation does not save;
\* a successful verifyReportMoveToLost persists the report as verified and
\* its item as lost in its one save
C28_SingleSaveOrNone ==
  [][/\ saves' \in {0, 1}
     /\ saves' = 0 => (Db' = Db /\ (JSONparses(blob) => blob' = blob))
     /\ Failed => saves' = 0
     /\ (op' = "verifyReportMoveToLost" /\ ret' = RetTrue) =>
          /\ saves' = 1
          /\ \E r \in ReportsAt(Db, arg'.val) :
               /\ Db'.found_reports[r].status = "verified"
               /\ \E i \in ItemsAt(Db', Db.found_reports[r].itemId) :
                     Db'.items[i].status = "lost"]_vars

\* importMerge has just raised on a snapshot whose items are well-formed and
\* whose found_reports are not: nothing was saved, the snapshot's item is not
\* in the store, which holds an item of its own
C28_Witness ==
  /\ op = "importMerge"
  /\ ret = Raised
  /\ saves = 0
  /\ arg.bad = "found_reports"
  /\ Len(Db.items) = 1
  /\ arg.ids.items \cap ItemIdsOf(Db) = {}

\* s is in non-increasing createdAt order
NewestFirst(s) ==
  \A i, j \in DOMAIN s : i < j => s[i].createdAt >= s[j].createdAt

\* the record row without the fields the join attached
Without(row, keys) == [k \in DOMAIN row \ keys |-> row[k]]

\* the rows are the records of s, each once, with the fields `keys` attached
RowsOf(rows, s, keys) ==
  /\ Len(rows) = Len(s)
  /\ \A r \in DOMAIN s :
        \E i \in DOMAIN rows : Without(rows[i], keys) = s[r]

\* C23: listPendingReportsWithItem returns one row per pending report, newest
\* first; the row of a report whose item exists has the item's itemName,
\* ownerName and photoPath, the row of a report whose item is missing has
\* "Unknown", "" and null.  listClaimsWithItem returns one row per claim,
\* with "" for the fields of a missing item
C23_ListRows ==
  [][/\ op' = "listPendingReportsWithItem" =>
          LET rows == ret'.val
              keys == {"itemName", "ownerName", "itemPhoto"}
          IN /\ RowsOf(rows, SelectSeq(Db.found_reports,
                                       LAMBDA x : x.status = "pending"), keys)
             /\ NewestFirst(rows)
             /\ \A i \in DOMAIN rows :
                  LET at == ItemsAt(Db, rows[i].itemId)
                  IN IF at # {}
                     THEN \E k \in at :
                            /\ rows[i].itemName = Db.items[k].itemName
                            /\ rows[i].ownerName = Db.items[k].ownerName
                            /\ rows[i].itemPhoto = Db.items[k].photoPath
                     ELSE /\ rows[i].itemName = "Unknown"
                          /\ rows[i].ownerName = ""
                          /\ rows[i].itemPhoto = NULL
     /\ op' = "listClaimsWithItem" =>
          LET rows == ret'.val
              keys == {"itemName", "ownerName", "studentId"}
          IN /\ RowsOf(rows, Db.claims, keys)
             /\ \A i \in DOMAIN rows :
                  ItemsAt(Db, rows[i].itemId) = {} =>
                    /\ rows[i].itemName = ""
                    /\ rows[i].ownerName = ""
                    /\ rows[i].studentId = ""]_vars

\* the place of record x in s
IndexIn(s, x) == CHOOSE i \in DOMAIN s : s[i] = x

\* C24: listItemsByStudent returns the items whose studentId is the argument
\* and no others, newest first, items of equal createdAt in the order they
\* have in the store; listLostItems returns the lost items and no others,
\* newest first
C24_ItemLists ==
  [][/\ op' = "listItemsByStudent" =>
          LET l == ret'.val
          IN /\ RowsOf(l, SelectSeq(Db.items,
                                    LAMBDA x : x.studentId = arg'.val), {})
             /\ NewestFirst(l)
             /\ \A i, j \in DOMAIN l :
                  (i < j /\ l[i].createdAt = l[j].createdAt) =>
                     IndexIn(Db.items, l[i]) < IndexIn(Db.items, l[j])
     /\ op' = "listLostItems" =>
          LET l == ret'.val
          IN /\ RowsOf(l, SelectSeq(Db.items, LAMBDA x : x.status = "lost"), {})
             /\ NewestFirst(l)]_vars

\* no start handler of panel p is between its click and its return
Settled(p) ==
  \A h \in Starters : PanelOf(h) = p => cameras.starts[h] \in {"idle", "done"}

\* C31: once the router has shown a panel other than #scan (#register) and
\* the start handlers of that camera have returned, no stream of that camera
\* runs and the scan loop is not running; and at most one stream per camera
\* runs at any time
C31_CamerasStopped ==
  /\ \A p \in CameraPanels :
        (cameras.hash # p /\ Settled(p)) =>
           /\ cameras.live[p] = {}
           /\ p = "#scan" => ~cameras.scanning
  /\ \A p \in CameraPanels : Cardinality(cameras.live[p]) <= 1
====
